---- MODULE Spec2Model ----
(***************************************************************************)
(* State-machine model of the VIP load-balancing controller                *)
(* (ryu_controller.py: SDNRest and SDNRestController).                     *)
(*                                                                         *)
(* One action per event handler or REST endpoint.  The flow tables of the  *)
(* switches are part of the state: a flow-mod sent on an open connection   *)
(* is applied to the table of that switch in the step that sends it (the   *)
(* OpenFlow channel is an in-order TCP stream), and a message sent on a    *)
(* closed connection is discarded.  The variables ev, sent and resp        *)
(* describe the last step: the packet-in it handled, the messages it sent  *)
(* and the status of the REST response it returned.                        *)
(***************************************************************************)
EXTENDS Integers, Sequences, FiniteSets, TLC

VARIABLES
    conn,           \* switch -> state of its OpenFlow connection
    datapaths,      \* SDNRest._datapaths: the registered switch ids
    port_stats,     \* SDNRest.port_stats: <<dpid, port_no>> -> tx_bytes
    port_desc,      \* SDNRest.port_desc: dpid -> sorted list of port numbers
    flow_stats,     \* SDNRest.flow_stats: <<dpid, match>> -> counters
    monitor,        \* the _monitor thread: "running", or "dead" once an exception left it
    pending,        \* the packet-in whose Selector call is in progress (or NoEvent)
    mac_to_port,    \* SDNRest.mac_to_port: dpid -> (mac -> port)
    host_ports,     \* SDNRest.host_ports: dpid -> (ip -> port)
    vip_sessions,   \* SDNRest.vip_sessions: <<client_ip, client_port>> -> server ip
    training_mode,  \* SDNRest.training_mode
    vip_stats,      \* SDNRest.vip_stats
    drl_agent,      \* SDNRest.drl_agent: None or the weights of its two networks
    flows,          \* switch -> the flow rules in its table
    hung,           \* the event loop is inside a Selector call that does not return
    ev,             \* the event or request handled by the last step (or NoEvent)
    sel,            \* how the last step chose its backend ("none": it chose none)
    sent,           \* the OpenFlow messages sent by the last step, in order
    resp            \* the REST response of the last step: its endpoint and status

vars == <<conn, datapaths, port_stats, port_desc, flow_stats, monitor, pending,
          mac_to_port, host_ports, vip_sessions, training_mode, vip_stats, drl_agent,
          flows, hung, ev, sel, sent, resp>>

----------------------------------------------------------------------------
(* Bounds of the model *)

\* new backend selections made in one run (caps vip_stats.total_requests)
MaxRequests == 2
\* VIP ARP requests answered in one run (caps vip_stats.arp_requests)
MaxArp == 1

----------------------------------------------------------------------------
(* Configuration: SDNRest.__init__ *)

VIRTUAL_IP == "10.0.0.100"
VIRTUAL_MAC == "aa:aa:aa:aa:aa:aa"

\* list(self.server_pool.keys()): a dict keeps its insertion order
server_ips == <<"10.0.0.1", "10.0.0.2", "10.0.0.3">>

server_pool ==
    [ip \in {"10.0.0.1", "10.0.0.2", "10.0.0.3"} |->
        CASE ip = "10.0.0.1" -> [mac |-> "00:00:00:00:00:01", port |-> 3, switch |-> 200]
          [] ip = "10.0.0.2" -> [mac |-> "00:00:00:00:00:02", port |-> 4, switch |-> 200]
          [] ip = "10.0.0.3" -> [mac |-> "00:00:00:00:00:03", port |-> 3, switch |-> 201]]

\* sorted(list(self.server_pool.keys())): the three addresses differ in their
\* last character only, so the string order is the order of that digit
sorted_server_ips == <<"10.0.0.1", "10.0.0.2", "10.0.0.3">>

\* the switches of the model: 200 has backends attached, 202 has only clients
Switches == {200, 202}

\* the pre-configured host_ports of the switches of the model
InitHostPorts ==
    [s \in Switches |->
        IF s = 200 THEN [ip \in {"10.0.0.1", "10.0.0.2"} |-> IF ip = "10.0.0.1" THEN 3 ELSE 4]
                   ELSE [ip \in {"10.0.0.5", "10.0.0.6"} |-> IF ip = "10.0.0.5" THEN 3 ELSE 4]]

\* Python None, as a record so that it compares with the agent record
None == [none |-> TRUE]
NoEvent == [kind |-> "none"]
NoResponse == [api |-> "none", status |-> 0]
Response(api, status) == [api |-> api, status |-> status]
Absent == -1
NoField == ""

\* ofproto_v1_3 reserved values, as 32-bit two's complement
OFPP_CONTROLLER == -3
OFPP_FLOOD == -5
OFP_NO_BUFFER == -1

PRIORITY_VIP == 4000
PRIORITY_TABLE_MISS == 0
TIMEOUT_TRAINING == 10
TIMEOUT_NORMAL == 30

----------------------------------------------------------------------------
(* Partial functions (Python dicts) *)

Put(f, k, v) == [x \in DOMAIN f \cup {k} |-> IF x = k THEN v ELSE f[x]]
Get(f, k, d) == IF k \in DOMAIN f THEN f[k] ELSE d
EmptyMap == <<>>

RECURSIVE SumOver(_, _)
SumOver(f, S) ==
    IF S = {} THEN 0
    ELSE LET k == CHOOSE k \in S : TRUE IN f[k] + SumOver(f, S \ {k})

----------------------------------------------------------------------------
(* OpenFlow messages and the flow tables of the switches *)

\* parser.OFPMatch(**kwargs): an absent field is a wildcard
Match(eth_type, ipv4_src, ipv4_dst, ip_proto, tcp_src, tcp_dst, udp_src, udp_dst) ==
    [eth_type |-> eth_type, ipv4_src |-> ipv4_src, ipv4_dst |-> ipv4_dst,
     ip_proto |-> ip_proto, tcp_src |-> tcp_src, tcp_dst |-> tcp_dst,
     udp_src |-> udp_src, udp_dst |-> udp_dst, arp_tpa |-> NoField]

\* parser.OFPMatch(): every field a wildcard
MatchAll == Match(Absent, NoField, NoField, Absent, Absent, Absent, Absent, Absent)

\* an action list: the set-field actions it holds, then its output port
Actions(eth_dst, ipv4_dst, eth_src, ipv4_src, output) ==
    [eth_dst |-> eth_dst, ipv4_dst |-> ipv4_dst, eth_src |-> eth_src,
     ipv4_src |-> ipv4_src, output |-> output]

OutputTo(port) == Actions(NoField, NoField, NoField, NoField, port)

\* SDNRest.add_flow: one OFPFlowMod (command OFPFC_ADD) for the datapath
FlowModAdd(dpid, priority, match, actions, idle_timeout, hard_timeout) ==
    [type |-> "flow_mod", command |-> "add", dpid |-> dpid, priority |-> priority,
     match |-> match, actions |-> actions,
     idle_timeout |-> idle_timeout, hard_timeout |-> hard_timeout]

FlowModDelete(dpid) ==
    [type |-> "flow_mod", command |-> "delete", dpid |-> dpid, priority |-> Absent,
     match |-> MatchAll, actions |-> OutputTo(Absent),
     idle_timeout |-> 0, hard_timeout |-> 0]

PacketOut(dpid, buffer_id, in_port, actions, data) ==
    [type |-> "packet_out", dpid |-> dpid, buffer_id |-> buffer_id,
     in_port |-> in_port, actions |-> actions, data |-> data]

\* the rule a flow-mod add puts into a table
RuleOf(m) ==
    [priority |-> m.priority, match |-> m.match, actions |-> m.actions,
     idle_timeout |-> m.idle_timeout, hard_timeout |-> m.hard_timeout]

\* the switch applies one message: an add replaces the rule of the same match
\* and priority; packet-outs leave the table alone
ApplyMsg(table, m) ==
    IF m.type = "flow_mod" /\ m.command = "add"
    THEN {r \in table : ~(r.priority = m.priority /\ r.match = m.match)} \cup {RuleOf(m)}
    ELSE table

RECURSIVE ApplyMsgs(_, _)
ApplyMsgs(table, msgs) ==
    IF msgs = <<>> THEN table
    ELSE ApplyMsgs(ApplyMsg(table, Head(msgs)), Tail(msgs))

\* datapath.send_msg for a list of messages to one switch: delivered in order
\* while the connection is open, discarded once it is closed
Deliver(s, msgs) ==
    IF conn[s] = "closed" THEN flows
    ELSE [flows EXCEPT ![s] = ApplyMsgs(flows[s], msgs)]

IsForwardRule(r) == r.actions.ipv4_dst # NoField
IsReverseRule(r) == r.actions.ipv4_src # NoField
IsVipRule(r) == IsForwardRule(r) \/ IsReverseRule(r)
IsTableMiss(r) ==
    r.priority = PRIORITY_TABLE_MISS /\ r.match = MatchAll /\ r.actions = OutputTo(OFPP_CONTROLLER)

----------------------------------------------------------------------------
(* Packet-in events *)

ETH_TYPE_IP == 2048
ETH_TYPE_ARP == 2054
ETH_TYPE_LLDP == 35020
ETH_TYPE_IPV6 == 34525
ARP_REQUEST == 1
ARP_REPLY == 2
PROTO_TCP == 6
PROTO_UDP == 17
PROTO_ICMP == 1
\* an IP protocol that is none of the three the handler knows (GRE)
PROTO_OTHER == 47

BROADCAST == "ff:ff:ff:ff:ff:ff"
ZERO_MAC == "00:00:00:00:00:00"
CLIENT_IP == "10.0.0.5"
CLIENT_MAC == "00:00:00:00:00:05"

\* a parsed frame: the Ethernet header and the ARP or IPv4/transport headers
Frame(ethertype, eth_src, eth_dst, arp_op, arp_src_mac, arp_src_ip, arp_dst_mac, arp_dst_ip, ip_src, ip_dst, ip_proto, tp_src, tp_dst) ==
    [ethertype |-> ethertype, eth_src |-> eth_src, eth_dst |-> eth_dst,
     arp_op |-> arp_op, arp_src_mac |-> arp_src_mac, arp_src_ip |-> arp_src_ip,
     arp_dst_mac |-> arp_dst_mac, arp_dst_ip |-> arp_dst_ip,
     ip_src |-> ip_src, ip_dst |-> ip_dst, ip_proto |-> ip_proto,
     tp_src |-> tp_src, tp_dst |-> tp_dst]

ArpFrame(eth_src, eth_dst, op, src_mac, src_ip, dst_mac, dst_ip) ==
    Frame(ETH_TYPE_ARP, eth_src, eth_dst, op, src_mac, src_ip, dst_mac, dst_ip,
          NoField, NoField, Absent, Absent, Absent)

IpFrame(eth_src, eth_dst, ip_src, ip_dst, ip_proto, tp_src, tp_dst) ==
    Frame(ETH_TYPE_IP, eth_src, eth_dst, Absent, NoField, NoField, NoField, NoField,
          ip_src, ip_dst, ip_proto, tp_src, tp_dst)

OtherFrame(ethertype, eth_src, eth_dst) ==
    Frame(ethertype, eth_src, eth_dst, Absent, NoField, NoField, NoField, NoField,
          NoField, NoField, Absent, Absent, Absent)

\* the input domains of the model
InPorts == {1, 3}
ClientPorts == {1000}
ServicePorts == {80}
IpProtos == {PROTO_TCP, PROTO_UDP, PROTO_ICMP, PROTO_OTHER}
HasPorts(proto) == proto \in {PROTO_TCP, PROTO_UDP}

\* IPv4 frames of the client for the virtual address
VipFrames ==
    {IpFrame(CLIENT_MAC, VIRTUAL_MAC, CLIENT_IP, VIRTUAL_IP, proto,
             IF HasPorts(proto) THEN sp ELSE Absent,
             IF HasPorts(proto) THEN dp ELSE Absent) :
        proto \in IpProtos, sp \in ClientPorts, dp \in ServicePorts}

\* ARP frames sent by hosts: requests and replies, any sender and target address
ArpIPs == {CLIENT_IP, VIRTUAL_IP}
ArpFrames ==
    {ArpFrame(CLIENT_MAC, dst, op, CLIENT_MAC, sip, ZERO_MAC, tip) :
        dst \in {BROADCAST}, op \in {ARP_REQUEST, ARP_REPLY},
        sip \in ArpIPs, tip \in ArpIPs}

\* other frames: IPv4 to a real host, link discovery, IPv6
PlainFrames ==
    {IpFrame(CLIENT_MAC, dst, CLIENT_IP, "10.0.0.1", PROTO_TCP, 1000, 80) :
        dst \in {"00:00:00:00:00:01", CLIENT_MAC}}
    \cup {OtherFrame(t, CLIENT_MAC, BROADCAST) : t \in {ETH_TYPE_LLDP, ETH_TYPE_IPV6}}

\* a stats reply of a switch, and a request to the REST API naming a switch
StatsEvent(kind, dpid, body) == [kind |-> kind, dpid |-> dpid, body |-> body]
RestEvent(api, dpid) == [kind |-> "rest", api |-> api, dpid |-> dpid]

PacketInEvent(dpid, in_port, pkt) ==
    [kind |-> "packet_in", dpid |-> dpid, in_port |-> in_port,
     buffer_id |-> OFP_NO_BUFFER, pkt |-> pkt]

\* pkt.get_protocol(arp.arp), pkt.get_protocol(ipv4.ipv4)
HasArp(pkt) == pkt.ethertype = ETH_TYPE_ARP
HasIpv4(pkt) == pkt.ethertype = ETH_TYPE_IP

\* _packet_in_handler returns at once for link discovery and IPv6
IsIgnored(pkt) == pkt.ethertype = ETH_TYPE_LLDP \/ pkt.ethertype = ETH_TYPE_IPV6
\* "PRIORITY 1": an ARP packet whose target is the virtual IP
IsArpForVip(pkt) == HasArp(pkt) /\ pkt.arp_dst_ip = VIRTUAL_IP
\* mutant of IsVipTraffic: no packet is taken for VIP traffic
IsVipTraffic_Never(pkt) == FALSE
\* "PRIORITY 2": an IPv4 packet whose destination is the virtual IP
IsVipTraffic(pkt) == HasIpv4(pkt) /\ pkt.ip_dst = VIRTUAL_IP

----------------------------------------------------------------------------
(* select_server_with_drl *)

\* seq[i] of a Python list: a negative index counts from the end
PyIndex(seq, i) == IF i >= 0 THEN seq[i + 1] ELSE seq[Len(seq) + i + 1]

\* the values drl_agent.act may return, and the ways the call may end
AgentActions == {-4, -1, 0, 1, 2, 3}
SelectorOutcomes ==
    {[kind |-> "ok", action |-> a] : a \in AgentActions}
    \cup {[kind |-> "raise", action |-> 0], [kind |-> "hang", action |-> 0]}

\* mutant of FallbackServer: the last configured backend
FallbackServer_Last == server_ips[Len(server_ips)]

\* the fallback of the except branch: list(self.server_pool.keys())[0]
FallbackServer == server_ips[1]

\* the round-robin choice made while no agent is registered
RoundRobinServer == server_ips[(vip_stats.total_requests % Len(server_ips)) + 1]

\* the mapping of the agent's action to a server; an index below -len raises
\* IndexError inside the try block
ActionServer(action) ==
    IF action < Len(sorted_server_ips)
    THEN IF action >= -Len(sorted_server_ips)
         THEN PyIndex(sorted_server_ips, action)
         ELSE FallbackServer
    ELSE sorted_server_ips[1]

\* the server select_server_with_drl returns when the call ends as o
SelectServer(o) ==
    IF drl_agent = None THEN RoundRobinServer
    ELSE IF o.kind = "raise" THEN FallbackServer
    ELSE ActionServer(o.action)

\* what the step records in sel: how the call ended ("raise" also when the
\* index of the returned action raises IndexError)
SelectorLabel(o) ==
    IF drl_agent = None THEN "round_robin"
    ELSE IF o.kind = "ok" /\ o.action < -Len(sorted_server_ips) THEN "raise"
    ELSE o.kind

----------------------------------------------------------------------------
(* handle_vip_packet *)

ClientPort(pkt) == IF HasPorts(pkt.ip_proto) THEN pkt.tp_src ELSE 0
DstPort(pkt) == IF HasPorts(pkt.ip_proto) THEN pkt.tp_dst ELSE 0
SessionKey(pkt) == <<pkt.ip_src, ClientPort(pkt)>>

\* the protocols the handler extracts ports for; any other one makes it return
IsSupported(pkt) == pkt.ip_proto \in {PROTO_TCP, PROTO_UDP, PROTO_ICMP}

\* mutant of CacheSession: the address of the backend is lost
CacheSession_Blank(key, server_ip) ==
    IF ~training_mode THEN Put(vip_sessions, key, NoField) ELSE vip_sessions

\* mutant of CacheSession: the selection is never cached
CacheSession_Never(key, server_ip) == vip_sessions

\* mutant of ReusesSession: the session table is never consulted
ReusesSession_Never(key) == FALSE

\* "Session persistence (disabled during training)"
ReusesSession(key) == ~training_mode /\ key \in DOMAIN vip_sessions

\* "Only cache if not in training mode"
CacheSession(key, server_ip) ==
    IF ~training_mode THEN Put(vip_sessions, key, server_ip) ELSE vip_sessions

\* mutant of CountSelection: the per-backend count is not kept
CountSelection_TotalOnly(server_ip) == [vip_stats EXCEPT !.total_requests = @ + 1]

\* total_requests and server_selections of the selected server, each plus one
CountSelection(server_ip) ==
    [vip_stats EXCEPT
        !.total_requests = @ + 1,
        !.server_selections = Put(@, server_ip, Get(@, server_ip, 0) + 1)]

FlowTimeout == IF training_mode THEN TIMEOUT_TRAINING ELSE TIMEOUT_NORMAL

\* the output port of the forward rule: the server's port on its own switch,
\* the uplink (port 1) elsewhere
ForwardOutPort(dpid, server_ip) ==
    IF dpid = server_pool[server_ip].switch THEN server_pool[server_ip].port ELSE 1

ForwardMatch(pkt) ==
    Match(ETH_TYPE_IP, pkt.ip_src, VIRTUAL_IP, pkt.ip_proto,
          IF pkt.ip_proto = PROTO_TCP THEN ClientPort(pkt) ELSE Absent,
          IF pkt.ip_proto = PROTO_TCP THEN DstPort(pkt) ELSE Absent,
          IF pkt.ip_proto = PROTO_UDP THEN ClientPort(pkt) ELSE Absent,
          IF pkt.ip_proto = PROTO_UDP THEN DstPort(pkt) ELSE Absent)

ForwardActions(dpid, server_ip) ==
    Actions(server_pool[server_ip].mac, server_ip, NoField, NoField,
            ForwardOutPort(dpid, server_ip))

\* the port of the reverse rule: the learned port of the client's MAC, else in_port
ClientOutPort(dpid, in_port, pkt) == Get(mac_to_port[dpid], pkt.eth_src, in_port)

ReverseMatch(pkt, server_ip) ==
    Match(ETH_TYPE_IP, server_ip, pkt.ip_src, pkt.ip_proto,
          IF pkt.ip_proto = PROTO_TCP THEN DstPort(pkt) ELSE Absent,
          IF pkt.ip_proto = PROTO_TCP THEN ClientPort(pkt) ELSE Absent,
          IF pkt.ip_proto = PROTO_UDP THEN DstPort(pkt) ELSE Absent,
          IF pkt.ip_proto = PROTO_UDP THEN ClientPort(pkt) ELSE Absent)

ReverseActions(dpid, in_port, pkt) ==
    Actions(NoField, NoField, VIRTUAL_MAC, VIRTUAL_IP, ClientOutPort(dpid, in_port, pkt))

\* mutant of VipPriority: the band of the table-miss rule
VipPriority_TableMiss == PRIORITY_TABLE_MISS

\* "PRIORITY 4000: Higher than basic routing (2000)"
VipPriority == PRIORITY_VIP

ForwardFlowMod(dpid, pkt, server_ip) ==
    FlowModAdd(dpid, VipPriority, ForwardMatch(pkt), ForwardActions(dpid, server_ip),
               FlowTimeout, FlowTimeout * 2)

ReverseFlowMod(dpid, in_port, pkt, server_ip) ==
    FlowModAdd(dpid, VipPriority, ReverseMatch(pkt, server_ip),
               ReverseActions(dpid, in_port, pkt), FlowTimeout, FlowTimeout * 2)

\* "Forward this packet immediately"
VipPacketOut(e, server_ip) ==
    PacketOut(e.dpid, e.buffer_id, e.in_port, ForwardActions(e.dpid, server_ip),
              IF e.buffer_id = OFP_NO_BUFFER THEN e.pkt ELSE NoEvent)

\* mutant of VipMessages: the packet-out leaves before the rules
VipMessages_OutFirst(e, server_ip) ==
    << VipPacketOut(e, server_ip), ForwardFlowMod(e.dpid, e.pkt, server_ip),
       ReverseFlowMod(e.dpid, e.in_port, e.pkt, server_ip) >>

\* mutant of VipMessages: the reverse rule is left out
VipMessages_NoReverse(e, server_ip) ==
    << ForwardFlowMod(e.dpid, e.pkt, server_ip), VipPacketOut(e, server_ip) >>

\* the messages handle_vip_packet sends, in the order it sends them
VipMessages(e, server_ip) ==
    << ForwardFlowMod(e.dpid, e.pkt, server_ip),
       ReverseFlowMod(e.dpid, e.in_port, e.pkt, server_ip),
       VipPacketOut(e, server_ip) >>

----------------------------------------------------------------------------
(* Initial state: SDNRest.__init__, no switch connected yet *)

Init ==
    /\ conn = [s \in Switches |-> "closed"]
    /\ datapaths = {}
    /\ port_stats = EmptyMap
    /\ port_desc = EmptyMap
    /\ flow_stats = EmptyMap
    /\ monitor = "running"
    /\ pending = NoEvent
    /\ mac_to_port = [s \in Switches |-> EmptyMap]
    /\ host_ports = InitHostPorts
    /\ vip_sessions = EmptyMap
    /\ training_mode = FALSE
    /\ vip_stats = [total_requests |-> 0, arp_requests |-> 0, server_selections |-> EmptyMap]
    /\ drl_agent = None
    /\ flows = [s \in Switches |-> {}]
    /\ hung = FALSE
    /\ ev = NoEvent
    /\ sel = "none"
    /\ sent = <<>>
    /\ resp = NoResponse

\* the event loop of the application takes the next event: it is inside no handler
LoopFree == ~hung /\ pending = NoEvent

\* a packet-in is dispatched in MAIN_DISPATCHER only, by the one event loop of
\* the application
CanHandle(s) == conn[s] = "main" /\ LoopFree

----------------------------------------------------------------------------
(* _packet_in_handler and the handlers it calls *)

\* link discovery and IPv6: the handler returns at once
PacketInIgnored(s, p, pkt) ==
    /\ CanHandle(s)
    /\ IsIgnored(pkt)
    /\ ev' = PacketInEvent(s, p, pkt)
    /\ sel' = "none"
    /\ sent' = <<>>
    /\ resp' = NoResponse
    /\ UNCHANGED <<conn, datapaths, port_stats, port_desc, flow_stats, monitor, pending,
                   mac_to_port, host_ports, vip_sessions,
                   training_mode, vip_stats, drl_agent, flows, hung>>

\* handle_arp_for_vip: the reply the controller builds for a request
ArpReplyFrame(pkt) ==
    ArpFrame(VIRTUAL_MAC, pkt.eth_src, ARP_REPLY, VIRTUAL_MAC, VIRTUAL_IP,
             pkt.arp_src_mac, pkt.arp_src_ip)

ArpReplyPacketOut(s, p, pkt) ==
    PacketOut(s, OFP_NO_BUFFER, OFPP_CONTROLLER, OutputTo(p), ArpReplyFrame(pkt))

\* mutant of ArpMessages: the opcode is not checked
ArpMessages_AnyOpcode(s, p, pkt) ==
    IF pkt.arp_dst_ip = VIRTUAL_IP THEN << ArpReplyPacketOut(s, p, pkt) >> ELSE << >>

\* the messages handle_arp_for_vip sends: one reply to a request, nothing otherwise
ArpMessages(s, p, pkt) ==
    IF pkt.arp_op = ARP_REQUEST /\ pkt.arp_dst_ip = VIRTUAL_IP
    THEN << ArpReplyPacketOut(s, p, pkt) >>
    ELSE << >>

\* an ARP packet whose target is the virtual IP: handle_arp_for_vip, then return
ArpForVip(s, p, pkt) ==
    /\ CanHandle(s)
    /\ ~IsIgnored(pkt)
    /\ IsArpForVip(pkt)
    /\ pkt.arp_op = ARP_REQUEST => vip_stats.arp_requests < MaxArp
    /\ vip_stats' = IF pkt.arp_op = ARP_REQUEST
                    THEN [vip_stats EXCEPT !.arp_requests = @ + 1]
                    ELSE vip_stats
    /\ ev' = PacketInEvent(s, p, pkt)
    /\ sel' = "none"
    /\ sent' = ArpMessages(s, p, pkt)
    /\ resp' = NoResponse
    /\ flows' = Deliver(s, sent')
    /\ UNCHANGED <<conn, datapaths, port_stats, port_desc, flow_stats, monitor, pending,
                   mac_to_port, host_ports, vip_sessions,
                   training_mode, drl_agent, hung>>

\* handle_vip_packet for a protocol that is not TCP, UDP or ICMP: it returns
VipUnsupported(s, p, pkt) ==
    /\ CanHandle(s)
    /\ ~IsIgnored(pkt) /\ ~IsArpForVip(pkt)
    /\ IsVipTraffic(pkt)
    /\ ~IsSupported(pkt)
    /\ ev' = PacketInEvent(s, p, pkt)
    /\ sel' = "none"
    /\ sent' = <<>>
    /\ resp' = NoResponse
    /\ UNCHANGED <<conn, datapaths, port_stats, port_desc, flow_stats, monitor, pending,
                   mac_to_port, host_ports, vip_sessions,
                   training_mode, vip_stats, drl_agent, flows, hung>>

\* handle_vip_packet for a key that has a session, outside training mode
VipReuse(s, p, pkt) ==
    /\ CanHandle(s)
    /\ ~IsIgnored(pkt) /\ ~IsArpForVip(pkt)
    /\ IsVipTraffic(pkt)
    /\ IsSupported(pkt)
    /\ ReusesSession(SessionKey(pkt))
    /\ ev' = PacketInEvent(s, p, pkt)
    /\ sel' = "none"
    /\ sent' = VipMessages(ev', vip_sessions[SessionKey(pkt)])
    /\ resp' = NoResponse
    /\ flows' = Deliver(s, sent')
    /\ UNCHANGED <<conn, datapaths, port_stats, port_desc, flow_stats, monitor, pending,
                   mac_to_port, host_ports, vip_sessions,
                   training_mode, vip_stats, drl_agent, hung>>

\* handle_vip_packet when it calls select_server_with_drl and the call returns
\* (o.kind = "ok") or raises inside the try block (o.kind = "raise")
VipSelect(s, p, pkt, o) ==
    /\ CanHandle(s)
    /\ ~IsIgnored(pkt) /\ ~IsArpForVip(pkt)
    /\ IsVipTraffic(pkt)
    /\ IsSupported(pkt)
    /\ ~ReusesSession(SessionKey(pkt))
    /\ o.kind # "hang"
    /\ LET server_ip == SelectServer(o) IN
        /\ vip_sessions' = CacheSession(SessionKey(pkt), server_ip)
        /\ vip_stats' = CountSelection(server_ip)
        /\ ev' = PacketInEvent(s, p, pkt)
        /\ sel' = SelectorLabel(o)
        /\ sent' = VipMessages(ev', server_ip)
    /\ resp' = NoResponse
    /\ flows' = Deliver(s, sent')
    /\ UNCHANGED <<conn, datapaths, port_stats, port_desc, flow_stats, monitor, pending,
                   mac_to_port, host_ports,
                   training_mode, drl_agent, hung>>

\* handle_vip_packet when the call into the agent does not return: the code sets
\* no timeout, and the event loop stays inside the call
VipSelectHangs(s, p, pkt) ==
    /\ CanHandle(s)
    /\ ~IsIgnored(pkt) /\ ~IsArpForVip(pkt)
    /\ IsVipTraffic(pkt)
    /\ IsSupported(pkt)
    /\ ~ReusesSession(SessionKey(pkt))
    /\ drl_agent # None
    /\ hung' = TRUE
    /\ ev' = PacketInEvent(s, p, pkt)
    /\ sel' = "hang"
    /\ sent' = <<>>
    /\ resp' = NoResponse
    /\ UNCHANGED <<conn, datapaths, port_stats, port_desc, flow_stats, monitor, pending,
                   mac_to_port, host_ports, vip_sessions,
                   training_mode, vip_stats, drl_agent, flows>>

\* handle_vip_packet in two steps, for the runs in which the Selector call
\* yields (get_metrics or act waiting on I/O): the session check has missed and
\* the call is in progress.  The event loop stays in the handler, so no other
\* event of the application is handled; the REST threads and the _monitor
\* thread go on
VipSelectBegin(s, p, pkt) ==
    /\ CanHandle(s)
    /\ ~IsIgnored(pkt) /\ ~IsArpForVip(pkt)
    /\ IsVipTraffic(pkt)
    /\ IsSupported(pkt)
    /\ ~ReusesSession(SessionKey(pkt))
    /\ vip_stats.total_requests < MaxRequests
    /\ pending' = PacketInEvent(s, p, pkt)
    /\ ev' = NoEvent /\ sel' = "none" /\ sent' = <<>> /\ resp' = NoResponse
    /\ UNCHANGED <<conn, datapaths, port_stats, port_desc, flow_stats, monitor,
                   mac_to_port, host_ports, vip_sessions, training_mode, vip_stats,
                   drl_agent, flows, hung>>

\* the call returns or raises, and the handler runs to its end
VipSelectEnd(o) ==
    /\ pending # NoEvent
    /\ o.kind # "hang"
    /\ LET server_ip == SelectServer(o) IN
        /\ vip_sessions' = CacheSession(SessionKey(pending.pkt), server_ip)
        /\ vip_stats' = CountSelection(server_ip)
        /\ ev' = pending
        /\ sel' = SelectorLabel(o)
        /\ sent' = VipMessages(pending, server_ip)
    /\ pending' = NoEvent
    /\ resp' = NoResponse
    /\ flows' = Deliver(pending.dpid, sent')
    /\ UNCHANGED <<conn, datapaths, port_stats, port_desc, flow_stats, monitor,
                   mac_to_port, host_ports, training_mode, drl_agent, hung>>

\* "REGULAR L2 LEARNING": learn the source, forward to the learned port or flood
LearnMac(s, p, pkt) == [mac_to_port EXCEPT ![s] = Put(@, pkt.eth_src, p)]

LearnHost(s, p, pkt) ==
    IF HasArp(pkt) THEN [host_ports EXCEPT ![s] = Put(@, pkt.arp_src_ip, p)]
    ELSE host_ports

\* mutant of L2OutPort: the learned port is never used
L2OutPort_Flood(table, pkt) == OFPP_FLOOD

\* the learned port of the destination, or flood
L2OutPort(table, pkt) == Get(table, pkt.eth_dst, OFPP_FLOOD)

L2Learning(s, p, pkt) ==
    /\ CanHandle(s)
    /\ ~IsIgnored(pkt) /\ ~IsArpForVip(pkt) /\ ~IsVipTraffic(pkt)
    /\ mac_to_port' = LearnMac(s, p, pkt)
    /\ host_ports' = LearnHost(s, p, pkt)
    /\ ev' = PacketInEvent(s, p, pkt)
    /\ sel' = "none"
    /\ sent' = << PacketOut(s, ev'.buffer_id, p, OutputTo(L2OutPort(mac_to_port'[s], pkt)), pkt) >>
    /\ resp' = NoResponse
    /\ flows' = Deliver(s, sent')
    /\ UNCHANGED <<conn, datapaths, port_stats, port_desc, flow_stats, monitor, pending,
                   vip_sessions, training_mode, vip_stats,
                   drl_agent, hung>>

----------------------------------------------------------------------------
(* Switch connections: switch_features_handler and _state_change_handler *)

NoStep == ev' = NoEvent /\ sel' = "none" /\ resp' = NoResponse

\* the hello exchange ends and the datapath enters CONFIG_DISPATCHER; the
\* state-change handler pops dp.id, which is still None: nothing is removed
SwitchConnect(s) ==
    /\ conn[s] = "closed"
    /\ LoopFree
    /\ conn' = [conn EXCEPT ![s] = "config"]
    /\ NoStep /\ sent' = <<>>
    /\ UNCHANGED <<datapaths, port_stats, port_desc, flow_stats, monitor, pending,
                   mac_to_port, host_ports, vip_sessions,
                   training_mode, vip_stats, drl_agent, flows, hung>>

\* mutant of TableMissFlowMod: the default rule floods instead
TableMissFlowMod_Flood(s) ==
    FlowModAdd(s, PRIORITY_TABLE_MISS, MatchAll, OutputTo(OFPP_FLOOD), 0, 0)

\* the table-miss rule of switch_features_handler
TableMissFlowMod(s) ==
    FlowModAdd(s, PRIORITY_TABLE_MISS, MatchAll, OutputTo(OFPP_CONTROLLER), 0, 0)

\* switch_features_handler: the table-miss rule
SwitchFeatures(s) ==
    /\ conn[s] = "config"
    /\ LoopFree
    /\ conn' = [conn EXCEPT ![s] = "features"]
    /\ NoStep /\ sent' = << TableMissFlowMod(s) >>
    /\ flows' = Deliver(s, sent')
    /\ UNCHANGED <<datapaths, port_stats, port_desc, flow_stats, monitor, pending,
                   mac_to_port, host_ports, vip_sessions,
                   training_mode, vip_stats, drl_agent, hung>>

\* _state_change_handler with ev.state = MAIN_DISPATCHER
SwitchEnterMain(s) ==
    /\ conn[s] = "features"
    /\ LoopFree
    /\ conn' = [conn EXCEPT ![s] = "main"]
    /\ datapaths' = datapaths \cup {s}
    /\ NoStep /\ sent' = <<>>
    /\ UNCHANGED <<port_stats, port_desc, flow_stats, monitor, pending,
                   mac_to_port, host_ports, vip_sessions,
                   training_mode, vip_stats, drl_agent, flows, hung>>

\* the connection closes and the datapath enters DEAD_DISPATCHER, a state the
\* handler is not registered for (it lists MAIN_DISPATCHER and CONFIG_DISPATCHER):
\* the handler does not run
SwitchDisconnect(s) ==
    /\ conn[s] # "closed"
    /\ conn' = [conn EXCEPT ![s] = "closed"]
    /\ NoStep /\ sent' = <<>>
    /\ UNCHANGED <<datapaths, port_stats, port_desc, flow_stats, monitor, pending,
                   mac_to_port, host_ports, vip_sessions,
                   training_mode, vip_stats, drl_agent, flows, hung>>

\* the switch removes a rule whose idle or hard timeout has elapsed
FlowExpire(s, r) ==
    /\ r \in flows[s]
    /\ r.idle_timeout > 0 \/ r.hard_timeout > 0
    /\ flows' = [flows EXCEPT ![s] = @ \ {r}]
    /\ NoStep /\ sent' = <<>>
    /\ UNCHANGED <<conn, datapaths, port_stats, port_desc, flow_stats, monitor, pending,
                   mac_to_port, host_ports, vip_sessions,
                   training_mode, vip_stats, drl_agent, hung>>

----------------------------------------------------------------------------
(* Stats: port_stats_handler *)

StatPorts == {1}
StatValues == {100}
StatBodies == {EmptyMap} \cup UNION {[P -> StatValues] : P \in SUBSET StatPorts \ {{}}}

RECURSIVE StorePortStats(_, _, _)
StorePortStats(stats, s, body) ==
    IF DOMAIN body = {} THEN stats
    ELSE LET port == CHOOSE port \in DOMAIN body : TRUE IN
         StorePortStats(Put(stats, <<s, port>>, body[port]), s,
                        [q \in DOMAIN body \ {port} |-> body[q]])

PortStatsReply(s, body) ==
    /\ CanHandle(s)
    /\ port_stats' = StorePortStats(port_stats, s, body)
    /\ ev' = StatsEvent("port_stats_reply", s, body)
    /\ sel' = "none" /\ resp' = NoResponse /\ sent' = <<>>
    /\ UNCHANGED <<conn, datapaths, port_desc, flow_stats, monitor, pending,
                   mac_to_port, host_ports, vip_sessions,
                   training_mode, vip_stats, drl_agent, flows, hung>>

\* get_port_stats: the entries of port_stats whose key names the switch
GetPortStats(dpid) ==
    [port \in {k[2] : k \in {x \in DOMAIN port_stats : x[1] = dpid}} |->
        port_stats[<<dpid, port>>]]

\* flow_stats_handler: one entry per <<dpid, match>> of the reply
FlowBodies == {EmptyMap, [m \in {"{}"} |-> [packet_count |-> 1, byte_count |-> 100]]}

FlowStatsReply(s, body) ==
    /\ CanHandle(s)
    /\ flow_stats' = StorePortStats(flow_stats, s, body)
    /\ ev' = StatsEvent("flow_stats_reply", s, body)
    /\ sel' = "none" /\ resp' = NoResponse /\ sent' = <<>>
    /\ UNCHANGED <<conn, datapaths, port_stats, port_desc, monitor, pending,
                   mac_to_port, host_ports, vip_sessions, training_mode, vip_stats,
                   drl_agent, flows, hung>>

\* port_desc_handler: the port numbers of the reply but OFPP_LOCAL, sorted
OFPP_LOCAL == -2
DescBodies == {<<1, 2, 3>>, <<3, OFPP_LOCAL, 1, 2>>}
PortList(body) == SortSeq(SelectSeq(body, LAMBDA q : q # OFPP_LOCAL), LAMBDA a, b : a < b)

PortDescReply(s, body) ==
    /\ CanHandle(s)
    /\ port_desc' = Put(port_desc, s, PortList(body))
    /\ ev' = StatsEvent("port_desc_reply", s, body)
    /\ sel' = "none" /\ resp' = NoResponse /\ sent' = <<>>
    /\ UNCHANGED <<conn, datapaths, port_stats, flow_stats, monitor, pending,
                   mac_to_port, host_ports, vip_sessions, training_mode, vip_stats,
                   drl_agent, flows, hung>>

\* get_ports: port_desc.get(dpid, [])
GetPorts(dpid) == Get(port_desc, dpid, <<>>)

----------------------------------------------------------------------------
(* The stats poller: _monitor and _request_stats *)

\* the requests _request_stats sends to one datapath, in the order it sends them
RequestKinds == <<"port_stats", "flow_stats", "port_desc">>
StatsRequest(dpid, k) == [type |-> "stats_request", what |-> RequestKinds[k], dpid |-> dpid]

\* the orders in which a cycle may visit the registered datapaths (the dict
\* keeps the order of first registration; every order is taken)
VisitOrders ==
    {o \in [1..Cardinality(datapaths) -> datapaths] :
        \A i, j \in DOMAIN o : o[i] = o[j] => i = j}

\* a send of the cycle that raises: the k-th send to the i-th datapath visited
NoFailure == [i |-> 0, k |-> 0]
SendFailures(order) == {NoFailure} \cup {[i |-> i, k |-> k] : i \in DOMAIN order, k \in 1..3}

\* the third send is inside try/except: its exception is swallowed; one of
\* the first two leaves _request_stats and _monitor
KillsMonitor(fail) == fail.k \in {1, 2}

\* the requests of the cycle that were sent
RECURSIVE CycleRequests(_, _, _)
CycleRequests(order, fail, i) ==
    IF i > Len(order) THEN <<>>
    ELSE IF fail.i = i
         THEN [k \in 1..(fail.k - 1) |-> StatsRequest(order[i], k)]
              \o (IF KillsMonitor(fail) THEN <<>> ELSE CycleRequests(order, fail, i + 1))
         ELSE [k \in 1..3 |-> StatsRequest(order[i], k)] \o CycleRequests(order, fail, i + 1)

\* one pass of the while loop of _monitor
MonitorCycle(order, fail) ==
    /\ monitor = "running"
    /\ order \in VisitOrders
    /\ fail \in SendFailures(order)
    /\ sent' = CycleRequests(order, fail, 1)
    /\ monitor' = IF KillsMonitor(fail) THEN "dead" ELSE "running"
    /\ ev' = [kind |-> "poll"] /\ sel' = "none" /\ resp' = NoResponse
    /\ UNCHANGED <<conn, datapaths, port_stats, port_desc, flow_stats, pending,
                   mac_to_port, host_ports, vip_sessions, training_mode, vip_stats,
                   drl_agent, flows, hung>>

----------------------------------------------------------------------------
(* REST: SDNRestController *)

\* set_training_mode; body is "bad" (not a JSON object), or the value of its
\* "enabled" key, "missing" standing for the default False
TrainingBodies == {"bad", "missing", "true", "false"}

\* mutant of SessionsAfterToggle: the table is not cleared
SessionsAfterToggle_Keep(enabled) == vip_sessions

\* "Clear existing sessions when enabling training mode"
SessionsAfterToggle(enabled) == IF enabled THEN EmptyMap ELSE vip_sessions

SetTrainingMode(body) ==
    /\ IF body = "bad"
       THEN /\ resp' = Response("set_training_mode", 500)
            /\ UNCHANGED <<training_mode, vip_sessions>>
       ELSE LET enabled == (body = "true") IN
            /\ training_mode' = enabled
            /\ vip_sessions' = SessionsAfterToggle(enabled)
            /\ resp' = Response("set_training_mode", 200)
    /\ ev' = NoEvent /\ sel' = "none" /\ sent' = <<>>
    /\ UNCHANGED <<conn, datapaths, port_stats, port_desc, flow_stats, monitor, pending,
                   mac_to_port, host_ports,
                   vip_stats, drl_agent, flows, hung>>

\* update_weights; the request ends as one of:
\*   "missing"    no q_net_weights: 400
\*   "init_fails" the agent does not exist and creating it raises: 500
\*   "q_fails"    decoding or loading q_net raises: 500
\*   "t_fails"    q_net is loaded, then decoding or loading target_net raises: 500
\*   "q_only"     q_net is loaded, no target_net_weights given: 200
\*   "both"       both networks are loaded: 200
WeightOutcomes == {"missing", "init_fails", "q_fails", "t_fails", "q_only", "both"}
INIT_WEIGHTS == 0
PUSHED_WEIGHTS == 1

NewAgent == [q_net |-> INIT_WEIGHTS, target_net |-> INIT_WEIGHTS]

\* mutant of UpdateWeights: the new policy starts with an empty session table
UpdateWeights_DropsSessions(outcome) ==
    /\ outcome = "init_fails" => drl_agent = None
    /\ LET agent == IF drl_agent = None THEN NewAgent ELSE drl_agent IN
       CASE outcome = "missing" ->
                resp' = Response("update_weights", 400) /\ UNCHANGED drl_agent
         [] outcome = "init_fails" ->
                resp' = Response("update_weights", 500) /\ UNCHANGED drl_agent
         [] outcome = "q_fails" ->
                resp' = Response("update_weights", 500) /\ drl_agent' = agent
         [] outcome = "t_fails" ->
                resp' = Response("update_weights", 500) /\ drl_agent' = [agent EXCEPT !.q_net = PUSHED_WEIGHTS]
         [] outcome = "q_only" ->
                resp' = Response("update_weights", 200) /\ drl_agent' = [agent EXCEPT !.q_net = PUSHED_WEIGHTS]
         [] outcome = "both" ->
                resp' = Response("update_weights", 200) /\ drl_agent' = [q_net |-> PUSHED_WEIGHTS, target_net |-> PUSHED_WEIGHTS]
    /\ ev' = NoEvent /\ sel' = "none" /\ sent' = <<>>
    /\ vip_sessions' = EmptyMap
    /\ UNCHANGED <<conn, datapaths, port_stats, port_desc, flow_stats, monitor, pending,
                   mac_to_port, host_ports,
                   training_mode, vip_stats, flows, hung>>

\* SDNRestController.update_weights
UpdateWeights(outcome) ==
    /\ outcome = "init_fails" => drl_agent = None
    /\ LET agent == IF drl_agent = None THEN NewAgent ELSE drl_agent IN
       CASE outcome = "missing" ->
                resp' = Response("update_weights", 400) /\ UNCHANGED drl_agent
         [] outcome = "init_fails" ->
                resp' = Response("update_weights", 500) /\ UNCHANGED drl_agent
         [] outcome = "q_fails" ->
                resp' = Response("update_weights", 500) /\ drl_agent' = agent
         [] outcome = "t_fails" ->
                resp' = Response("update_weights", 500) /\ drl_agent' = [agent EXCEPT !.q_net = PUSHED_WEIGHTS]
         [] outcome = "q_only" ->
                resp' = Response("update_weights", 200) /\ drl_agent' = [agent EXCEPT !.q_net = PUSHED_WEIGHTS]
         [] outcome = "both" ->
                resp' = Response("update_weights", 200) /\ drl_agent' = [q_net |-> PUSHED_WEIGHTS, target_net |-> PUSHED_WEIGHTS]
    /\ ev' = NoEvent /\ sel' = "none" /\ sent' = <<>>
    /\ UNCHANGED <<conn, datapaths, port_stats, port_desc, flow_stats, monitor, pending,
                   mac_to_port, host_ports, vip_sessions,
                   training_mode, vip_stats, flows, hung>>

\* the switch ids a REST request may name: the switches and an unknown id
UNKNOWN_DPID == 999
RequestDpids == Switches \cup {UNKNOWN_DPID}
DEFAULT_PRIORITY == 1000
ManualPriorities == {DEFAULT_PRIORITY}
ManualPorts == {1}
\* OFPMatch(**data.get('match', {})): no match given
ManualMatches == {MatchAll}

\* the requests of the provisioning script (setup_network.py): a rule sending
\* ARP for the virtual IP to the controller, a static route to a host
ArpMatch(arp_tpa) == [MatchAll EXCEPT !.eth_type = ETH_TYPE_ARP, !.arp_tpa = arp_tpa]
RouteMatch(ipv4_dst) == [MatchAll EXCEPT !.eth_type = ETH_TYPE_IP, !.ipv4_dst = ipv4_dst]
PRIORITY_VIP_ARP == 5000
PRIORITY_ROUTE == 2000
ScriptRequests ==
    {[match |-> ArpMatch(VIRTUAL_IP), port |-> OFPP_CONTROLLER],
     [match |-> RouteMatch(CLIENT_IP), port |-> 3]}
\* int(data.get('priority', 1000)): any integer the request carries
RequestPriorities == {PRIORITY_VIP_ARP, PRIORITY_VIP, PRIORITY_ROUTE, DEFAULT_PRIORITY}

\* mutant of HasDatapath: any switch of the network counts as registered
HasDatapath_AnySwitch(dpid) == dpid \in Switches

\* _app_instance._datapaths.get(dpid) is not None
HasDatapath(dpid) == dpid \in datapaths

\* SDNRestController.add_flow: only the OUTPUT actions of the request are kept
RestAddFlow(dpid, match, priority, port) ==
    /\ IF ~HasDatapath(dpid)
       THEN resp' = Response("add_flow", 404) /\ sent' = <<>> /\ UNCHANGED flows
       ELSE /\ sent' = << FlowModAdd(dpid, priority, match, OutputTo(port), 0, 0) >>
            /\ flows' = Deliver(dpid, sent')
            /\ resp' = Response("add_flow", 200)
    /\ ev' = RestEvent("add_flow", dpid) /\ sel' = "none"
    /\ UNCHANGED <<conn, datapaths, port_stats, port_desc, flow_stats, monitor, pending,
                   mac_to_port, host_ports, vip_sessions,
                   training_mode, vip_stats, drl_agent, hung>>

\* SDNRestController.clear_flows: OFPFlowMod(command=OFPFC_DELETE) with the default
\* out_port and out_group (0, not OFPP_ANY / OFPG_ANY); whether the switch takes
\* them as filters is up to the switch: it deletes every rule, or none
ClearEffects == {"all", "none"}

RestClearFlows(dpid, effect) ==
    /\ IF ~HasDatapath(dpid)
       THEN resp' = Response("clear_flows", 404) /\ sent' = <<>> /\ UNCHANGED flows
       ELSE /\ sent' = << FlowModDelete(dpid) >>
            /\ flows' = IF conn[dpid] # "closed" /\ effect = "all"
                        THEN [flows EXCEPT ![dpid] = {}]
                        ELSE flows
            /\ resp' = Response("clear_flows", 200)
    /\ ev' = RestEvent("clear_flows", dpid) /\ sel' = "none"
    /\ UNCHANGED <<conn, datapaths, port_stats, port_desc, flow_stats, monitor, pending,
                   mac_to_port, host_ports, vip_sessions,
                   training_mode, vip_stats, drl_agent, hung>>

----------------------------------------------------------------------------
(* The specifications *)

Frames == VipFrames \cup ArpFrames \cup PlainFrames

PacketIn(s, p, pkt) ==
    \/ PacketInIgnored(s, p, pkt)
    \/ ArpForVip(s, p, pkt)
    \/ VipUnsupported(s, p, pkt)
    \/ VipReuse(s, p, pkt)
    \/ \E o \in SelectorOutcomes :
                vip_stats.total_requests < MaxRequests /\ VipSelect(s, p, pkt, o)
    \/ VipSelectHangs(s, p, pkt)
    \/ VipSelectBegin(s, p, pkt)
    \/ L2Learning(s, p, pkt)

\* the whole machine: every handler, every input of the model
Next ==
    \/ \E s \in Switches, p \in InPorts, pkt \in Frames : PacketIn(s, p, pkt)
    \/ \E s \in Switches : SwitchConnect(s)
    \/ \E s \in Switches : SwitchFeatures(s)
    \/ \E s \in Switches : SwitchEnterMain(s)
    \/ \E s \in Switches : SwitchDisconnect(s)
    \/ \E s \in Switches : \E r \in flows[s] : FlowExpire(s, r)
    \/ \E o \in SelectorOutcomes : VipSelectEnd(o)
    \/ \E s \in Switches, body \in StatBodies : PortStatsReply(s, body)
    \/ \E s \in Switches, body \in FlowBodies : FlowStatsReply(s, body)
    \/ \E s \in Switches, body \in DescBodies : PortDescReply(s, body)
    \/ \E order \in VisitOrders : \E fail \in SendFailures(order) : MonitorCycle(order, fail)
    \/ \E body \in TrainingBodies : SetTrainingMode(body)
    \/ \E outcome \in WeightOutcomes : UpdateWeights(outcome)
    \/ \E dpid \in RequestDpids, priority \in ManualPriorities, port \in ManualPorts :
          \E match \in ManualMatches : RestAddFlow(dpid, match, priority, port)
    \/ \E dpid \in RequestDpids, effect \in ClearEffects : RestClearFlows(dpid, effect)

Spec == Init /\ [][Next]_vars

(***************************************************************************)
(* The reachable states of Spec are too many to enumerate (every subset of *)
(* the installed rules times every table of sessions and of learned        *)
(* hosts).  Each property is checked under a specification whose steps are *)
(* steps of Next: the handlers and inputs the property is about.           *)
(***************************************************************************)

\* the switch whose packet-ins the session and flow specifications follow:
\* backends 10.0.0.1 and 10.0.0.2 are attached to it, 10.0.0.3 is not
EdgeSwitches == {200}
EdgeInPorts == {3}
SessionFrames == {f \in VipFrames : f.ip_proto \in {PROTO_TCP, PROTO_ICMP, PROTO_OTHER}}
ReturningOutcomes == {o \in SelectorOutcomes : o.kind # "hang"}

\* sessions: VIP packet-ins of two session keys, training-mode toggles, policy
\* updates, stats replies, switch connects and disconnects
NextSession ==
    \/ \E s \in EdgeSwitches, p \in EdgeInPorts, pkt \in SessionFrames :
          \/ VipUnsupported(s, p, pkt)
          \/ VipReuse(s, p, pkt)
          \/ \E o \in ReturningOutcomes :
                vip_stats.total_requests < MaxRequests /\ VipSelect(s, p, pkt, o)
    \/ \E s \in EdgeSwitches : SwitchConnect(s)
    \/ \E s \in EdgeSwitches : SwitchFeatures(s)
    \/ \E s \in EdgeSwitches : SwitchEnterMain(s)
    \/ \E s \in EdgeSwitches : SwitchDisconnect(s)
    \/ \E s \in EdgeSwitches, body \in StatBodies : PortStatsReply(s, body)
    \/ \E body \in TrainingBodies : SetTrainingMode(body)
    \/ \E outcome \in WeightOutcomes : UpdateWeights(outcome)

SpecSession == Init /\ [][NextSession]_vars

\* flow tables: VIP packet-ins, rule expiry at the switch, training-mode toggles
\* and the REST flow commands
FlowFrames == {f \in VipFrames : f.ip_proto \in {PROTO_TCP, PROTO_UDP}}

NextFlows ==
    \/ \E s \in EdgeSwitches, p \in EdgeInPorts, pkt \in FlowFrames :
          \/ VipReuse(s, p, pkt)
          \/ \E o \in ReturningOutcomes :
                vip_stats.total_requests < MaxRequests /\ VipSelect(s, p, pkt, o)
    \/ \E s \in EdgeSwitches : SwitchConnect(s)
    \/ \E s \in EdgeSwitches : SwitchFeatures(s)
    \/ \E s \in EdgeSwitches : SwitchEnterMain(s)
    \/ \E s \in EdgeSwitches : \E r \in flows[s] : FlowExpire(s, r)
    \/ \E body \in {"true", "false"} : SetTrainingMode(body)
    \/ \E dpid \in EdgeSwitches \cup {UNKNOWN_DPID}, priority \in ManualPriorities,
          port \in ManualPorts : \E match \in ManualMatches :
              RestAddFlow(dpid, match, priority, port)
    \/ \E dpid \in EdgeSwitches \cup {UNKNOWN_DPID}, effect \in ClearEffects :
          RestClearFlows(dpid, effect)

SpecFlows == Init /\ [][NextFlows]_vars

\* classification: ARP frames and frames for real hosts arriving on both
\* switches, and the answer of a real host to the client arriving on port 1
ClassifiedFrames == ArpFrames \cup PlainFrames

NextClassify ==
    \/ \E s \in Switches, p \in InPorts, pkt \in ClassifiedFrames :
          \/ PacketInIgnored(s, p, pkt)
          \/ ArpForVip(s, p, pkt)
          \/ L2Learning(s, p, pkt)
    \/ \E s \in Switches :
          L2Learning(s, 1, IpFrame("00:00:00:00:00:01", CLIENT_MAC, "10.0.0.1", CLIENT_IP, PROTO_TCP, 80, 1000))
    \/ \E s \in Switches : SwitchConnect(s)
    \/ \E s \in Switches : SwitchFeatures(s)
    \/ \E s \in Switches : SwitchEnterMain(s)

SpecClassify == Init /\ [][NextClassify]_vars

\* priority bands: the rules of the controller and the rules the manual endpoint
\* installs, with the priority each request names
BandFrames == {f \in VipFrames : IsSupported(f)}

NextBands ==
    \/ \E s \in EdgeSwitches, p \in EdgeInPorts, pkt \in BandFrames :
          \/ VipReuse(s, p, pkt)
          \/ \E o \in ReturningOutcomes :
                vip_stats.total_requests < MaxRequests /\ VipSelect(s, p, pkt, o)
    \/ \E s \in EdgeSwitches : SwitchConnect(s)
    \/ \E s \in EdgeSwitches : SwitchFeatures(s)
    \/ \E s \in EdgeSwitches : SwitchEnterMain(s)
    \/ \E dpid \in EdgeSwitches, q \in ScriptRequests, priority \in RequestPriorities :
          RestAddFlow(dpid, q.match, priority, q.port)
    \/ \E outcome \in {"both"} : UpdateWeights(outcome)

SpecBands == Init /\ [][NextBands]_vars

\* stats: the replies of two switches to the requests of the poller
SnapshotBodies == {(1 :> 100) @@ (2 :> 200), (1 :> 150)}

NextStats ==
    \/ \E s \in Switches : SwitchConnect(s)
    \/ \E s \in Switches : SwitchFeatures(s)
    \/ \E s \in Switches : SwitchEnterMain(s)
    \/ \E s \in Switches, body \in SnapshotBodies : PortStatsReply(s, body)
    \/ \E s \in Switches, body \in FlowBodies : FlowStatsReply(s, body)
    \/ \E s \in Switches, body \in DescBodies : PortDescReply(s, body)

SpecStats == Init /\ [][NextStats]_vars

\* the poller and the event loop: poll cycles, with a send that raises or none,
\* and packet-ins for real hosts and for the virtual IP on both switches, while
\* switches connect and disconnect
NextPoll ==
    \/ \E s \in Switches : SwitchConnect(s)
    \/ \E s \in Switches : SwitchFeatures(s)
    \/ \E s \in Switches : SwitchEnterMain(s)
    \/ \E s \in Switches : SwitchDisconnect(s)
    \/ \E order \in VisitOrders : \E fail \in SendFailures(order) : MonitorCycle(order, fail)
    \/ \E s \in Switches, p \in InPorts, pkt \in PlainFrames \cup {f \in BandFrames : f.ip_proto = PROTO_TCP} :
          \/ PacketInIgnored(s, p, pkt)
          \/ L2Learning(s, p, pkt)
          \/ VipReuse(s, p, pkt)
          \/ \E o \in ReturningOutcomes :
                vip_stats.total_requests < MaxRequests /\ VipSelect(s, p, pkt, o)

SpecPoll == Init /\ [][NextPoll]_vars

\* the manual flow commands, for registered and unknown switch ids, while
\* switches connect and disconnect
NextRest ==
    \/ \E s \in Switches : SwitchConnect(s)
    \/ \E s \in Switches : SwitchFeatures(s)
    \/ \E s \in Switches : SwitchEnterMain(s)
    \/ \E s \in Switches : SwitchDisconnect(s)
    \/ \E dpid \in RequestDpids, priority \in ManualPriorities, port \in ManualPorts :
          \E match \in ManualMatches : RestAddFlow(dpid, match, priority, port)
    \/ \E dpid \in RequestDpids, effect \in ClearEffects : RestClearFlows(dpid, effect)

SpecRest == Init /\ [][NextRest]_vars

\* two handlings of one session key: packet-ins of one client flow arriving
\* from both switches, the Selector call yielding to REST requests
RaceFrames == {f \in VipFrames : f.ip_proto = PROTO_TCP}

NextRace ==
    \/ \E s \in Switches, p \in EdgeInPorts, pkt \in RaceFrames :
          \/ VipReuse(s, p, pkt)
          \/ VipSelectBegin(s, p, pkt)
    \/ \E o \in ReturningOutcomes : VipSelectEnd(o)
    \/ \E s \in Switches : SwitchConnect(s)
    \/ \E s \in Switches : SwitchFeatures(s)
    \/ \E s \in Switches : SwitchEnterMain(s)
    \/ \E s \in Switches : SwitchDisconnect(s)
    \/ \E body \in {"true", "false"} : SetTrainingMode(body)
    \/ \E outcome \in {"both"} : UpdateWeights(outcome)

SpecRace == Init /\ [][NextRace]_vars

\* the Selector call: it returns, raises or does not return.  The event loop
\* handles every event it is given, hence the weak fairness of the steps

NextSelector ==
    \/ \E s \in EdgeSwitches, p \in EdgeInPorts, pkt \in RaceFrames :
          \/ VipReuse(s, p, pkt)
          \/ \E o \in ReturningOutcomes :
                vip_stats.total_requests < MaxRequests /\ VipSelect(s, p, pkt, o)
          \/ VipSelectHangs(s, p, pkt)
    \/ \E s \in EdgeSwitches : SwitchConnect(s)
    \/ \E s \in EdgeSwitches : SwitchFeatures(s)
    \/ \E s \in EdgeSwitches : SwitchEnterMain(s)
    \/ \E s \in EdgeSwitches : SwitchDisconnect(s)
    \/ \E body \in {"true", "false"} : SetTrainingMode(body)
    \/ \E outcome \in WeightOutcomes : UpdateWeights(outcome)

SpecSelector == Init /\ [][NextSelector]_vars /\ WF_vars(NextSelector)

\* ten connections of one client, from consecutive source ports, each a new
\* session outside training mode; the policy is absent or registered, and its
\* act() returns one of two actions
MaxConnections == 10

NextSpread ==
    \/ \E o \in {x \in SelectorOutcomes : x.kind = "ok" /\ x.action \in {0, 1}} :
          /\ vip_stats.total_requests < MaxConnections
          /\ VipSelect(200, 3, IpFrame(CLIENT_MAC, VIRTUAL_MAC, CLIENT_IP, VIRTUAL_IP, PROTO_TCP,
                                      1001 + vip_stats.total_requests, 80), o)
    \/ \E s \in EdgeSwitches : SwitchConnect(s)
    \/ \E s \in EdgeSwitches : SwitchFeatures(s)
    \/ \E s \in EdgeSwitches : SwitchEnterMain(s)
    \/ \E outcome \in {"both"} : UpdateWeights(outcome)

SpecSpread == Init /\ [][NextSpread]_vars

----------------------------------------------------------------------------
(* Properties *)

\* the last step handled a packet-in that handle_vip_packet carried through
\* (TCP, UDP or ICMP for the virtual IP)
VipHandled ==
    /\ ev.kind = "packet_in"
    /\ IsVipTraffic(ev.pkt)
    /\ ev.pkt.ip_proto \in {PROTO_TCP, PROTO_UDP, PROTO_ICMP}
    /\ sel # "hang"

\* the backend the last step directed its packet to: the destination its
\* forward rule and its packet-out rewrite to
UsedBackend == sent[1].actions.ipv4_dst

\* mt is the match of the forward rule (client to virtual IP) of the frame pkt
MatchesForward(mt, pkt) ==
    /\ mt.eth_type = ETH_TYPE_IP
    /\ mt.ipv4_src = pkt.ip_src /\ mt.ipv4_dst = VIRTUAL_IP
    /\ mt.ip_proto = pkt.ip_proto
    /\ mt.tcp_src = (IF pkt.ip_proto = PROTO_TCP THEN pkt.tp_src ELSE Absent)
    /\ mt.tcp_dst = (IF pkt.ip_proto = PROTO_TCP THEN pkt.tp_dst ELSE Absent)
    /\ mt.udp_src = (IF pkt.ip_proto = PROTO_UDP THEN pkt.tp_src ELSE Absent)
    /\ mt.udp_dst = (IF pkt.ip_proto = PROTO_UDP THEN pkt.tp_dst ELSE Absent)

\* mt is the match of the reverse rule (backend b to client) of the frame pkt
MatchesReverse(mt, pkt, b) ==
    /\ mt.eth_type = ETH_TYPE_IP
    /\ mt.ipv4_src = b /\ mt.ipv4_dst = pkt.ip_src
    /\ mt.ip_proto = pkt.ip_proto
    /\ mt.tcp_src = (IF pkt.ip_proto = PROTO_TCP THEN pkt.tp_dst ELSE Absent)
    /\ mt.tcp_dst = (IF pkt.ip_proto = PROTO_TCP THEN pkt.tp_src ELSE Absent)
    /\ mt.udp_src = (IF pkt.ip_proto = PROTO_UDP THEN pkt.tp_dst ELSE Absent)
    /\ mt.udp_dst = (IF pkt.ip_proto = PROTO_UDP THEN pkt.tp_src ELSE Absent)

\* the actions rewrite the destination to backend b
RewritesTo(a, b) == a.ipv4_dst = b /\ a.eth_dst = server_pool[b].mac
\* the actions rewrite the source to the virtual identity
RewritesFromVip(a) == a.ipv4_src = VIRTUAL_IP /\ a.eth_src = VIRTUAL_MAC

IsAdd(m) == m.type = "flow_mod" /\ m.command = "add"

\* C1: session stickiness.  Over every step that starts and ends outside
\* training mode, each key of the session table keeps its backend, and a VIP
\* packet-in handled for that key is directed to that backend.
C1_SessionSticky ==
    [][ (~training_mode /\ ~training_mode') =>
          \A k \in DOMAIN vip_sessions :
              /\ k \in DOMAIN vip_sessions'
              /\ vip_sessions'[k] = vip_sessions[k]
              /\ (VipHandled' /\ SessionKey(ev'.pkt) = k) =>
                    /\ sent' # <<>>
                    /\ UsedBackend' = vip_sessions[k]
                    /\ \A i \in 1..Len(sent') :
                          /\ sent'[i].actions.ipv4_dst \in {NoField, vip_sessions[k]}
                          /\ sent'[i].type = "flow_mod" =>
                                sent'[i].match.ipv4_src \in {k[1], vip_sessions[k]}
      ]_vars

\* C1 witness: after a policy update and the assignment of another key, a
\* packet-in reuses the session of its key
C1_Witness ==
    /\ VipHandled /\ sel = "none" /\ ~training_mode
    /\ SessionKey(ev.pkt) \in DOMAIN vip_sessions
    /\ UsedBackend = vip_sessions[SessionKey(ev.pkt)]
    /\ Cardinality(DOMAIN vip_sessions) = 2
    /\ drl_agent # None

\* the client port a VIP rule is about: the transport port of the client in
\* its match, 0 for a protocol without ports
RulePort(src, dst) == IF src # Absent THEN src ELSE IF dst # Absent THEN dst ELSE 0
ForwardRulesOf(s, k) ==
    {r \in flows[s] : /\ IsForwardRule(r)
                      /\ r.match.ipv4_src = k[1]
                      /\ RulePort(r.match.tcp_src, r.match.udp_src) = k[2]}
ReverseRulesOf(s, k) ==
    {r \in flows[s] : /\ IsReverseRule(r)
                      /\ r.match.ipv4_dst = k[1]
                      /\ RulePort(r.match.tcp_dst, r.match.udp_dst) = k[2]}

\* C2 as stated: in every state (every state follows the return of a handler),
\* each key of the session table has exactly one forward rule and exactly one
\* reverse rule on the ingress switch of the client.
C2_Original ==
    \A k \in DOMAIN vip_sessions : \A s \in EdgeSwitches :
        /\ Cardinality(ForwardRulesOf(s, k)) = 1
        /\ Cardinality(ReverseRulesOf(s, k)) = 1

\* C2 amended: in the state the VIP packet-in handler returns in, outside
\* training mode, the key of the packet has a session, and the ingress switch
\* holds exactly one forward rule for the flow of the packet, rewriting to the
\* backend of the session, and exactly one reverse rule from that backend to
\* the flow.  (Later the rules expire or are cleared and the session stays; a
\* key used over TCP and UDP has one pair of rules for each.)
C2_Amended ==
    (VipHandled /\ ~training_mode) =>
        LET k == SessionKey(ev.pkt)
            table == flows[ev.dpid]
        IN  /\ k \in DOMAIN vip_sessions
            /\ LET b == vip_sessions[k]
                   fwd == {r \in table : MatchesForward(r.match, ev.pkt) /\ IsVipRule(r)}
                   rev == {r \in table : MatchesReverse(r.match, ev.pkt, b) /\ IsVipRule(r)}
               IN  /\ Cardinality(fwd) = 1
                   /\ \A r \in fwd : RewritesTo(r.actions, b)
                   /\ Cardinality(rev) = 1
                   /\ \A r \in rev : RewritesFromVip(r.actions)

\* C2 witness: the handler returns for a key that has a session and whose
\* rules were removed before (the table holds the rules of this flow only)
C2_Witness ==
    /\ VipHandled /\ ~training_mode /\ sel = "none"
    /\ SessionKey(ev.pkt) \in DOMAIN vip_sessions
    /\ Cardinality({r \in flows[ev.dpid] : IsVipRule(r)}) = 2
    /\ vip_stats.total_requests = 2

\* C3: every forward rule issued for a key K toward a backend B is followed,
\* among the messages of the same handler run and to the same switch, by the
\* reverse rule for (B, K).
C3_ReverseWithForward ==
    \A i \in 1..Len(sent) :
        (IsAdd(sent[i]) /\ sent[i].actions.ipv4_dst # NoField) =>
            \E j \in (i + 1)..Len(sent) :
                /\ IsAdd(sent[j])
                /\ sent[j].dpid = sent[i].dpid
                /\ sent[j].priority = sent[i].priority
                /\ sent[j].match.eth_type = sent[i].match.eth_type
                /\ sent[j].match.ipv4_src = sent[i].actions.ipv4_dst
                /\ sent[j].match.ipv4_dst = sent[i].match.ipv4_src
                /\ sent[j].match.ip_proto = sent[i].match.ip_proto
                /\ sent[j].match.tcp_src = sent[i].match.tcp_dst
                /\ sent[j].match.tcp_dst = sent[i].match.tcp_src
                /\ sent[j].match.udp_src = sent[i].match.udp_dst
                /\ sent[j].match.udp_dst = sent[i].match.udp_src
                /\ RewritesFromVip(sent[j].actions)

\* C3 witness: a handler run has issued a forward rule in training mode
C3_Witness ==
    /\ VipHandled /\ training_mode
    /\ \E i \in 1..Len(sent) : IsAdd(sent[i]) /\ sent[i].actions.ipv4_dst # NoField

\* m is a packet-out carrying an ARP reply in the name of the virtual address
IsVipArpReply(m) ==
    /\ m.type = "packet_out"
    /\ HasArp(m.data)
    /\ m.data.arp_op = ARP_REPLY
    /\ m.data.arp_src_ip = VIRTUAL_IP
    /\ (m.data.eth_src = VIRTUAL_MAC \/ m.data.arp_src_mac = VIRTUAL_MAC)

IsArpRequestForVip(e) ==
    /\ e.kind = "packet_in"
    /\ HasArp(e.pkt)
    /\ e.pkt.arp_op = ARP_REQUEST
    /\ e.pkt.arp_dst_ip = VIRTUAL_IP

\* C4: a packet-in carrying an ARP request for the virtual IP produces exactly
\* one message: a packet-out to the same switch, on the ingress port, whose
\* data is an ARP reply with Ethernet source and sender MAC the virtual MAC,
\* sender IP the virtual IP, and the requester as Ethernet destination and ARP
\* target.  No other step produces an ARP reply in the name of the virtual IP.
C4_ArpReply ==
    IF IsArpRequestForVip(ev)
    THEN /\ Len(sent) = 1
         /\ IsVipArpReply(sent[1])
         /\ sent[1].dpid = ev.dpid
         /\ sent[1].actions.output = ev.in_port
         /\ sent[1].data.eth_src = VIRTUAL_MAC
         /\ sent[1].data.arp_src_mac = VIRTUAL_MAC
         /\ sent[1].data.eth_dst = ev.pkt.eth_src
         /\ sent[1].data.arp_dst_mac = ev.pkt.arp_src_mac
         /\ sent[1].data.arp_dst_ip = ev.pkt.arp_src_ip
    ELSE \A i \in 1..Len(sent) : ~IsVipArpReply(sent[i])

\* C4 witness: a request for the virtual IP was answered on switch 202, port 3
C4_Witness ==
    /\ IsArpRequestForVip(ev) /\ ev.dpid = 202 /\ ev.in_port = 3
    /\ Len(sent) = 1 /\ IsVipArpReply(sent[1])

\* C5 as stated: neither host_ports nor the learning table of any switch has
\* an entry for the virtual address.
C5_Claim ==
    \A s \in Switches :
        /\ VIRTUAL_IP \notin DOMAIN host_ports[s]
        /\ VIRTUAL_MAC \notin DOMAIN mac_to_port[s]

\* C6 as stated: a successful toggle request leaves the session table empty.
C6_Original ==
    (resp.api = "set_training_mode" /\ resp.status = 200) => vip_sessions = EmptyMap

\* C6 amended: a successful toggle request that enables training mode leaves
\* the session table empty; one that disables it leaves the table as it was
\* (empty if training mode was on, since nothing is cached in training mode).
C6_Amended ==
    [][ (resp'.api = "set_training_mode" /\ resp'.status = 200) =>
            /\ training_mode' => vip_sessions' = EmptyMap
            /\ ~training_mode' => vip_sessions' = vip_sessions
            /\ training_mode => vip_sessions' = EmptyMap
      ]_vars

\* C6 witness: training mode was enabled after two selections and the table
\* is empty
C6_Witness ==
    /\ resp.api = "set_training_mode" /\ resp.status = 200
    /\ training_mode /\ vip_sessions = EmptyMap
    /\ vip_stats.total_requests = 2

\* C7 as stated: while training mode is enabled the session table is empty and
\* every VIP packet-in invokes the Selector.
C7_Claim ==
    /\ training_mode => vip_sessions = EmptyMap
    /\ (training_mode /\ ev.kind = "packet_in" /\ IsVipTraffic(ev.pkt)) => sel # "none"

\* C8: when the Selector call raises, the handler still sends the forward rule,
\* the reverse rule and the packet-out, in this order and to the switch of the
\* packet-in, all toward the first configured backend; the rules are installed
\* and, outside training mode, the session is cached for that backend.
C8_FallbackOnFailure ==
    sel = "raise" =>
        LET b == "10.0.0.1" IN
        /\ VipHandled
        /\ Len(sent) = 3
        /\ \A i \in 1..3 : sent[i].dpid = ev.dpid
        /\ IsAdd(sent[1]) /\ sent[1].priority = PRIORITY_VIP
        /\ MatchesForward(sent[1].match, ev.pkt) /\ RewritesTo(sent[1].actions, b)
        /\ IsAdd(sent[2]) /\ sent[2].priority = PRIORITY_VIP
        /\ MatchesReverse(sent[2].match, ev.pkt, b) /\ RewritesFromVip(sent[2].actions)
        /\ sent[3].type = "packet_out"
        /\ RewritesTo(sent[3].actions, b) /\ sent[3].data = ev.pkt
        /\ \E r \in flows[ev.dpid] :
              MatchesForward(r.match, ev.pkt) /\ RewritesTo(r.actions, b)
        /\ \E r \in flows[ev.dpid] :
              MatchesReverse(r.match, ev.pkt, b) /\ RewritesFromVip(r.actions)
        /\ ~training_mode => vip_sessions[SessionKey(ev.pkt)] = b
        /\ ~hung

\* C8 witness: the call raised outside training mode and the handler went on
C8_Witness ==
    /\ sel = "raise" /\ ~training_mode /\ Len(sent) = 3
    /\ vip_sessions[SessionKey(ev.pkt)] = "10.0.0.1"

\* C9 as stated: a handling whose Selector call does not return completes all
\* the same (the event loop leaves the call and goes on).
C9_Claim == hung ~> ~hung

\* C10: on every switch, each VIP forward or reverse rule has a strictly higher
\* priority than the table-miss rule (the controller installs no
\* learning-switch rule: the flow-mod of the learning path is commented out).
C10_VipOutranks ==
    \A s \in Switches : \A r1, r2 \in flows[s] :
        (IsVipRule(r1) /\ IsTableMiss(r2)) => r1.priority > r2.priority

\* C10 witness: a table holds the table-miss rule, a forward and a reverse rule
C10_Witness ==
    \E s \in Switches :
        /\ \E r \in flows[s] : IsTableMiss(r)
        /\ \E r \in flows[s] : IsForwardRule(r)
        /\ \E r \in flows[s] : IsReverseRule(r)

\* the band of a rule: 4 ARP for the virtual IP to the controller, 3 VIP
\* forward/reverse, 2 static routing, 0 table-miss (band 1, learning-switch
\* rules, has no rule: the controller installs none)
IsArpToController(r) ==
    /\ r.match.eth_type = ETH_TYPE_ARP /\ r.match.arp_tpa = VIRTUAL_IP
    /\ r.actions = OutputTo(OFPP_CONTROLLER)
IsStaticRoute(r) ==
    /\ r.match.eth_type = ETH_TYPE_IP /\ r.match.ipv4_dst # NoField
    /\ r.match.ipv4_dst # VIRTUAL_IP /\ r.match.ipv4_src = NoField
    /\ ~IsVipRule(r)
Band(r) ==
    IF IsArpToController(r) THEN 4
    ELSE IF IsVipRule(r) THEN 3
    ELSE IF IsStaticRoute(r) THEN 2
    ELSE 0

\* C11 as stated: on every switch a rule of a higher band has a strictly
\* higher priority than a rule of a lower band (so no two bands share a value).
C11_Claim ==
    \A s \in Switches : \A r1, r2 \in flows[s] :
        Band(r1) > Band(r2) => r1.priority > r2.priority

\* C12 as stated: a switch whose connection is closed is not in the registry.
C12_Claim == \A s \in Switches : conn[s] = "closed" => s \notin datapaths

\* C13 as stated: once the features reply of a switch has been processed, the
\* port-list endpoint returns the ports of the switch.
C13_Claim == \A s \in Switches : conn[s] \in {"features", "main"} => GetPorts(s) = <<1, 2, 3>>

\* C14 as stated: after a port-stats reply of a switch, the port-stats read for
\* that switch returns exactly the mapping the reply carried.
C14_Claim == ev.kind = "port_stats_reply" => GetPortStats(ev.dpid) = ev.body

\* the state a manual flow command must leave alone
RestState ==
    <<conn, datapaths, port_stats, port_desc, flow_stats, monitor, pending, mac_to_port,
      host_ports, vip_sessions, training_mode, vip_stats, drl_agent, flows, hung>>

\* C16: a manual flow-install or flow-clear request naming a switch id that is
\* not in the registry is answered 404, sends no message and changes no state.
C16_UnknownSwitch ==
    [][ (ev'.kind = "rest" /\ ev'.dpid \notin datapaths) =>
            /\ resp'.status = 404
            /\ sent' = <<>>
            /\ RestState' = RestState
      ]_vars

\* C16 witness: a flow-clear request named the unknown id while a switch was
\* registered, and was answered 404
C16_Witness ==
    /\ ev.kind = "rest" /\ ev.api = "clear_flows" /\ ev.dpid = UNKNOWN_DPID
    /\ resp.status = 404 /\ datapaths # {}

\* C17 as stated: a manual flow command whose message could not be delivered
\* (the connection of the switch is closed) is not answered with success.
C17_Claim ==
    (ev.kind = "rest" /\ sent # <<>> /\ conn[ev.dpid] = "closed") => resp.status # 200

\* C18 as stated: a VIP packet of a protocol other than TCP and UDP gets a
\* backend, forward and reverse rules that match on addresses and protocol
\* only, and a packet-out.
C18_Claim ==
    (ev.kind = "packet_in" /\ IsVipTraffic(ev.pkt)
        /\ ev.pkt.ip_proto \notin {PROTO_TCP, PROTO_UDP}) =>
            /\ Len(sent) = 3
            /\ IsAdd(sent[1]) /\ MatchesForward(sent[1].match, ev.pkt)
            /\ IsAdd(sent[2])
            /\ MatchesReverse(sent[2].match, ev.pkt, sent[1].actions.ipv4_dst)
            /\ sent[3].type = "packet_out"

\* C19: the handlings of one session key do not race.  Outside training mode,
\* a handling that ends leaves the key in the session table with the backend
\* its forward rule, reverse rule and packet-out use, and no step that leaves
\* training mode off changes the backend of a key that has one; so a second
\* handling, from whichever switch, installs rules for the backend of the first.
C19_NoRace ==
    [][ ~training_mode' =>
          /\ VipHandled' =>
                LET k == SessionKey(ev'.pkt) IN
                /\ Len(sent') = 3
                /\ Get(vip_sessions', k, NoField) = UsedBackend'
                /\ RewritesTo(sent'[1].actions, UsedBackend')
                /\ MatchesReverse(sent'[2].match, ev'.pkt, UsedBackend')
                /\ RewritesTo(sent'[3].actions, UsedBackend')
          /\ \A k \in DOMAIN vip_sessions :
                ~training_mode => Get(vip_sessions', k, NoField) = vip_sessions[k]
      ]_vars

\* C19 witness: a packet-in from switch 202 reused the session made for a
\* packet-in from switch 200, whose rules are for the same backend
C19_Witness ==
    /\ VipHandled /\ ~training_mode /\ sel = "none" /\ ev.dpid = 202
    /\ drl_agent # None
    /\ \E r \in flows[200] :
          /\ MatchesForward(r.match, ev.pkt)
          /\ r.actions.ipv4_dst = vip_sessions[SessionKey(ev.pkt)]

\* C20 as stated: no failed send stops the poller.
C20_Claim == monitor = "running"

\* C21: a step that handles an IPv4 packet-in for the virtual IP leaves the
\* learning table and the host-to-port table of every switch as they were, and
\* the rules of every switch other than the ingress switch; of the state of the
\* application only the session table and the VIP counters may change
C21_VipLeavesLearning ==
    [][ (ev'.kind = "packet_in" /\ ev'.pkt.ethertype = ETH_TYPE_IP /\ ev'.pkt.ip_dst = VIRTUAL_IP)
        => /\ mac_to_port' = mac_to_port
           /\ host_ports' = host_ports
           /\ \A s \in Switches \ {ev'.dpid} : flows'[s] = flows[s]
           /\ UNCHANGED <<conn, datapaths, port_stats, port_desc, flow_stats, monitor,
                          training_mode, drl_agent>> ]_vars

\* a VIP packet-in was carried through on a switch that has learned a host
C21_Witness ==
    /\ VipHandled /\ Len(sent) = 3
    /\ mac_to_port[ev.dpid] # EmptyMap
    /\ mac_to_port[ev.dpid] # mac_to_port[CHOOSE d \in Switches : d # ev.dpid]

\* C22: a step that handles a packet-in that is neither link discovery, IPv6,
\* ARP for the virtual IP nor IPv4 for the virtual IP, from switch S and port p:
\* afterwards the learning table of S maps the source MAC to p, the tables of
\* the other switches are as before, and exactly one packet-out is sent, to the
\* port learned for the destination MAC on S, or flooded when S has none
C22_LearnAndForward ==
    [][ (/\ ev'.kind = "packet_in"
         /\ ev'.pkt.ethertype \notin {ETH_TYPE_LLDP, ETH_TYPE_IPV6}
         /\ ~(ev'.pkt.ethertype = ETH_TYPE_ARP /\ ev'.pkt.arp_dst_ip = VIRTUAL_IP)
         /\ ~(ev'.pkt.ethertype = ETH_TYPE_IP /\ ev'.pkt.ip_dst = VIRTUAL_IP))
        => LET S == ev'.dpid
               learned == mac_to_port'[S]
           IN /\ Get(learned, ev'.pkt.eth_src, OFPP_FLOOD) = ev'.in_port
              /\ \A t \in Switches \ {S} : mac_to_port'[t] = mac_to_port[t]
              /\ Len(sent') = 1
              /\ sent'[1].type = "packet_out" /\ sent'[1].dpid = S
              /\ sent'[1].actions.output =
                    (IF ev'.pkt.eth_dst \in DOMAIN learned THEN learned[ev'.pkt.eth_dst]
                     ELSE OFPP_FLOOD) ]_vars

\* a frame for a learned destination was sent to its port, on a switch whose
\* table differs from the table of the other switch
C22_Witness ==
    /\ ev.kind = "packet_in" /\ ev.pkt.ethertype = ETH_TYPE_IP /\ ev.pkt.ip_dst # VIRTUAL_IP
    /\ Len(sent) = 1 /\ sent[1].type = "packet_out"
    /\ ev.pkt.eth_dst # ev.pkt.eth_src
    /\ sent[1].actions.output \notin {ev.in_port, OFPP_FLOOD}
    /\ mac_to_port[ev.dpid] # mac_to_port[CHOOSE d \in Switches : d # ev.dpid]
    /\ mac_to_port[CHOOSE d \in Switches : d # ev.dpid] # EmptyMap

\* C23: the step that handles the features reply of a switch issues the
\* table-miss rule (priority 0, empty match, output to the controller) to it; a
\* switch is entered in the registry only by a later step, from the state the
\* features reply left it in; and every switch that is registered, polled or
\* has a packet-in processed has been issued that rule
C23_TableMissFirst ==
    [][ /\ \A s \in Switches :
            /\ (conn'[s] = "features" /\ conn[s] # "features")
                 => /\ Len(sent') = 1 /\ IsAdd(sent'[1]) /\ sent'[1].dpid = s
                    /\ IsTableMiss(RuleOf(sent'[1]))
                    /\ datapaths' = datapaths
            /\ (conn'[s] = "main" /\ conn[s] # "main") => conn[s] = "features"
            /\ s \in datapaths' \ datapaths => conn[s] = "features"
            /\ s \in datapaths' => \E r \in flows'[s] : IsTableMiss(r)
        /\ ev'.kind = "packet_in" => \E r \in flows'[ev'.dpid] : IsTableMiss(r)
        /\ ev'.kind = "poll"
             => \A i \in DOMAIN sent' : \E r \in flows'[sent'[i].dpid] : IsTableMiss(r) ]_vars

\* both switches are polled, one of them after a packet-in of it was processed
C23_Witness ==
    /\ ev.kind = "poll" /\ {sent[i].dpid : i \in DOMAIN sent} = Switches
    /\ \E s \in Switches : mac_to_port[s] # EmptyMap

\* C24: a VIP packet-in that selects a backend adds one to total_requests and
\* one to the count of the backend it selected, and changes no other count; a
\* VIP packet-in that reuses a session changes no counter; after every step
\* total_requests is the sum of the per-backend counts, and both are non-zero
\* once a VIP packet-in has been handled
C24_StatsPerSelection ==
    [][ LET old == vip_stats.server_selections
            new == vip_stats'.server_selections
        IN /\ (VipHandled' /\ sel' # "none")
                => /\ vip_stats'.total_requests = vip_stats.total_requests + 1
                   /\ DOMAIN new = DOMAIN old \cup {UsedBackend'}
                   /\ \A b \in DOMAIN new :
                         new[b] = Get(old, b, 0) + (IF b = UsedBackend' THEN 1 ELSE 0)
           /\ (VipHandled' /\ sel' = "none") => vip_stats' = vip_stats
           /\ vip_stats'.total_requests = SumOver(new, DOMAIN new)
           /\ VipHandled' => vip_stats'.total_requests > 0 /\ new # EmptyMap ]_vars

\* a session is reused after two selections counted for two backends
C24_Witness ==
    /\ VipHandled /\ sel = "none"
    /\ vip_stats.total_requests = 2
    /\ Cardinality(DOMAIN vip_stats.server_selections) = 2

\* C25: whenever ten connections of one client from consecutive source ports
\* have a session each, their sessions name at least two backends
C25_Claim ==
    \A k \in DOMAIN vip_sessions :
        (\A q \in k[2]..(k[2] + 9) : <<k[1], q>> \in DOMAIN vip_sessions)
        => Cardinality({vip_sessions[<<k[1], q>>] : q \in k[2]..(k[2] + 9)}) >= 2

\* C26: a step that carries a VIP packet-in (TCP, UDP or ICMP) through sends
\* three messages to the ingress switch: the flow-mod of the forward rule, the
\* flow-mod of the reverse rule, then one packet-out whose actions are those of
\* the forward rule (destination MAC and IP rewritten to the backend, output
\* to the backend's port on its own switch, to the uplink elsewhere)
C26_RulesThenPacketOut ==
    [][ VipHandled'
        => /\ Len(sent') = 3
           /\ \A i \in 1..3 : sent'[i].dpid = ev'.dpid
           /\ IsAdd(sent'[1]) /\ MatchesForward(sent'[1].match, ev'.pkt)
           /\ LET b == sent'[1].actions.ipv4_dst
              IN /\ b \in DOMAIN server_pool
                 /\ RewritesTo(sent'[1].actions, b)
                 /\ sent'[1].actions.output =
                       (IF server_pool[b].switch = ev'.dpid THEN server_pool[b].port ELSE 1)
                 /\ IsAdd(sent'[2]) /\ MatchesReverse(sent'[2].match, ev'.pkt, b)
                 /\ RewritesFromVip(sent'[2].actions)
           /\ sent'[3].type = "packet_out"
           /\ sent'[3].actions = sent'[1].actions
           /\ sent'[3].data = ev'.pkt ]_vars

\* a UDP packet-in for a backend of another switch was carried through
C26_Witness ==
    /\ VipHandled /\ ev.pkt.ip_proto = PROTO_UDP
    /\ Len(sent) = 3 /\ sent[3].type = "packet_out"
    /\ sent[3].actions.ipv4_dst = "10.0.0.3" /\ sent[3].actions.output = 1

\* C27: a policy-update request, answered with success or with an error,
\* leaves the session table and the training-mode flag as they were: every key
\* that has a session keeps its backend
C27_PolicyKeepsSessions ==
    [][ resp'.api = "update_weights"
        => /\ vip_sessions' = vip_sessions
           /\ training_mode' = training_mode ]_vars

\* a request failed after an earlier one had replaced both networks, with
\* sessions in the table
C27_Witness ==
    /\ resp.api = "update_weights" /\ resp.status = 500
    /\ drl_agent = [q_net |-> PUSHED_WEIGHTS, target_net |-> PUSHED_WEIGHTS]
    /\ Cardinality(DOMAIN vip_sessions) = 2

\* C28: every backend a session names, every backend counted and the backend
\* of every VIP packet-in carried through is a backend of the configured pool,
\* whatever action the policy returned and whichever fallback was taken; the
\* handler then finds the backend and sends its three messages
C28_BackendInPool ==
    /\ \A k \in DOMAIN vip_sessions : vip_sessions[k] \in DOMAIN server_pool
    /\ DOMAIN vip_stats.server_selections \subseteq DOMAIN server_pool
    /\ VipHandled => Len(sent) = 3 /\ UsedBackend \in DOMAIN server_pool

\* the call into the policy raised (or its action was below -len) after another
\* selection had returned the last backend of the pool
C28_Witness ==
    /\ VipHandled /\ sel = "raise" /\ ~training_mode
    /\ Cardinality(DOMAIN vip_sessions) = 2
    /\ \E k \in DOMAIN vip_sessions : vip_sessions[k] = "10.0.0.3"

\* C29: a policy-update request answered with an error leaves the policy as
\* it was: no agent is created and no network is replaced
C29_Claim ==
    [][ (resp'.api = "update_weights" /\ resp'.status # 200) => drl_agent' = drl_agent ]_vars

====
